---- MODULE Spec2Model ----
(***************************************************************************)
(* A model of rlnjs: the membership Registry (src/src/registry/index.ts)   *)
(* and the RLN protocol core (src/src/rln.ts).                             *)
(*                                                                         *)
(* The module holds several specifications over one set of variables; each *)
(* specification moves one group of variables and leaves the others at     *)
(* their initial value:                                                    *)
(*   SpecRegistry  the Registry object: constructor, init(), accessors,    *)
(*                 indexOf, addMember, addMembers, removeMember            *)
(*   SpecRLN       concurrent callers of RLN.calculateOutput and           *)
(*                 RLN.genNullifier over the lazily initialised handle     *)
(*   SpecShare     two calculateOutput calls followed by retrieveSecret    *)
(*   SpecRetrieve  retrieveSecret on arbitrary field elements              *)
(*   SpecWitness   genWitness                                              *)
(***************************************************************************)
EXTENDS Integers, Sequences, FiniteSets, TLC

VARIABLES
    reg,            \* the Registry object: None, or its _treeDepth and _zeroValue
    tree,           \* Registry._merkleTree: Undefined, or the tree's depth, zeroes[0] and leaves
    initPending,    \* number of init() calls suspended at `await buildPoseidon()`
    lastOp,         \* the last Registry operation, its arguments and its outcome
    rlnPoseidon,    \* RLN._poseidon: "undefined" or "ready"
    buildsStarted,  \* number of buildPoseidon() calls started by RLN.poseidon
    buildsPending,  \* buildPoseidon() promises of RLN.poseidon not yet resolved
    calls,          \* per caller: position inside calculateOutput / genNullifier
    share,          \* the two-share scenario: inputs, both outputs, recovered secret
    retr,           \* the last retrieveSecret call on arbitrary inputs
    wit             \* the last genWitness call and the witness it returned

vars == <<reg, tree, initPending, lastOp, rlnPoseidon, buildsStarted,
          buildsPending, calls, share, retr, wit>>

regVars == <<reg, tree, initPending, lastOp>>
rlnVars == <<rlnPoseidon, buildsStarted, buildsPending, calls>>

(***************************************************************************)
(* Bounds.                                                                 *)
(***************************************************************************)
\* The scalar field prime is scaled down to a small prime: Primes[PrimeIndex].
Primes == <<3, 5, 7, 11, 13>>
PrimeIndex == 3
P == Primes[PrimeIndex]
FieldElements == 0 .. (P - 1)

(***************************************************************************)
(* Field arithmetic (Fq of ./utils) and the Poseidon primitive.            *)
(***************************************************************************)
Ok(v) == [status |-> "ok", val |-> v]
Failure(e) == [status |-> e, val |-> -1]

Normalize(a) == a % P
FqSub(a, b) == (a - b) % P
FqMul(a, b) == (a * b) % P
FqInv(b) == CHOOSE i \in FieldElements : (b * i) % P = 1
FqDiv(a, b) ==
    IF b % P = 0 THEN Failure("DivisionByZero")
    ELSE Ok((a * FqInv(b % P)) % P)

\* The hash primitive: a deterministic map from an ordered pair of field
\* elements to a field element (an opaque collaborator; a fixed mixing
\* polynomial stands for it).
Poseidon(input) ==
    (input[1] * input[1] + 3 * input[2] * input[2] + input[1] * input[2]
        + 2 * input[1] + input[2] + 1) % P

(***************************************************************************)
(* RLN.retrieveSecret (rln.ts 147-152).                                    *)
(***************************************************************************)
RetrieveSecretSwapped(x1, x2, y1, y2) ==
    LET slope == FqDiv(FqSub(y2, y1), FqSub(x2, x1))
    IN  IF slope.status # "ok" THEN slope
        ELSE Ok(Normalize(FqSub(y1, FqMul(slope.val, x2))))

RetrieveSecretNoGuard(x1, x2, y1, y2) ==
    LET den == FqSub(x2, x1)
        slope == IF den = 0 THEN Ok(0) ELSE FqDiv(FqSub(y2, y1), den)
    IN  Ok(Normalize(FqSub(y1, FqMul(slope.val, x1))))

RetrieveSecret(x1, x2, y1, y2) ==
    LET slope == FqDiv(FqSub(y2, y1), FqSub(x2, x1))
    IN  IF slope.status # "ok" THEN slope
        ELSE Ok(Normalize(FqSub(y1, FqMul(slope.val, x1))))

\* y = Fq.normalize(a1 * x + identitySecret) (rln.ts 112).
ShareY(a1, x, identitySecret) == Normalize(a1 * x + identitySecret)

(***************************************************************************)
(* RLN.genSignalHash and RLN.genWitness (rln.ts 79-95, 133-137).           *)
(* A string is the sequence of its UTF-8 bytes; a bigint produced by       *)
(* hashing is the big-endian sequence of its bytes.                        *)
(***************************************************************************)
Str(bytes) == [t |-> "string", v |-> bytes]
Big(bytes) == [t |-> "bigint", v |-> bytes]

SignalEmpty == <<>>
SignalHello == <<104, 101, 108, 108, 111>>
SignalWorld == <<119, 111, 114, 108, 100>>
Signals == {SignalEmpty, SignalHello, SignalWorld}

\* keccak256 of the three signals (the 32 digest bytes).
Keccak256(bytes) ==
    CASE bytes = SignalEmpty ->
            <<197, 210, 70, 1, 134, 247, 35, 60, 146, 126, 125, 178, 220, 199, 3, 192,
              229, 0, 182, 83, 202, 130, 39, 59, 123, 250, 216, 4, 93, 133, 164, 112>>
      [] bytes = SignalHello ->
            <<28, 138, 255, 149, 6, 133, 194, 237, 75, 195, 23, 79, 52, 114, 40, 123,
              86, 217, 81, 123, 156, 148, 129, 39, 49, 154, 9, 167, 163, 109, 234, 200>>
      [] bytes = SignalWorld ->
            <<132, 82, 201, 185, 20, 2, 34, 176, 133, 147, 162, 109, 170, 120, 39, 7,
              41, 123, 233, 247, 179, 232, 40, 29, 123, 73, 116, 118, 159, 25, 175, 208>>

\* BigInt(digest) >> BigInt(8): the digest without its least significant byte.
ShiftRight8(digest) == SubSeq(digest, 1, Len(digest) - 1)

GenSignalHash(signal) == Big(ShiftRight8(Keccak256(signal)))

\* shouldHash = true is the default of an omitted argument.
ShouldHashArgs == {"omitted", "true", "false"}
ShouldHashValue(arg) == arg # "false"

GenWitnessInverted(identitySecret, merkleProof, epoch, signal, rlnIdentifier, shouldHash) ==
    [identity_secret |-> identitySecret,
     path_elements |-> merkleProof.siblings,
     identity_path_index |-> merkleProof.pathIndices,
     x |-> IF ShouldHashValue(shouldHash) THEN Str(signal) ELSE GenSignalHash(signal),
     epoch |-> epoch,
     rln_identifier |-> rlnIdentifier]

GenWitness(identitySecret, merkleProof, epoch, signal, rlnIdentifier, shouldHash) ==
    [identity_secret |-> identitySecret,
     path_elements |-> merkleProof.siblings,
     identity_path_index |-> merkleProof.pathIndices,
     x |-> IF ShouldHashValue(shouldHash) THEN GenSignalHash(signal) ELSE Str(signal),
     epoch |-> epoch,
     rln_identifier |-> rlnIdentifier]

(***************************************************************************)
(* Initial values of the variable groups.                                  *)
(***************************************************************************)
\* A Member (string | bigint): a bigint n, or a string holding the decimal
\* digits of n (n >= 0) or holding no number at all (n = -1, e.g. "x").
MBig(n) == [t |-> "bigint", v |-> n]
MStr(n) == [t |-> "string", v |-> n]

None == [constructed |-> FALSE, treeDepth |-> 0, zeroValue |-> MBig(0)]
Undefined == [built |-> FALSE, depth |-> 0, zero |-> MBig(0), leaves |-> <<>>]
NoOp ==
    [op |-> "none", outcome |-> "ok", member |-> MBig(0), index |-> -1, list |-> <<>>,
     failedAt |-> 0, value |-> -1, out |-> <<>>, before |-> <<>>,
     builtBefore |-> FALSE, prevInsert |-> -1]

Callers == {"c1", "c2"}
IdleCall ==
    [pc |-> "idle", fn |-> "none", identitySecret |-> 0, epoch |-> 0,
     rlnIdentifier |-> 0, x |-> 0, a1 |-> Failure("pending"), y |-> -1,
     nullifier |-> Failure("pending"), result |-> "pending"]

NoShare ==
    [stage |-> "none", identitySecret |-> 0, epoch |-> 0, rlnIdentifier |-> 0,
     x1 |-> 0, x2 |-> 0, y1 |-> -1, nullifier1 |-> -1, y2 |-> -1, nullifier2 |-> -1,
     secret |-> Failure("pending")]
NoRetr == [called |-> FALSE, x1 |-> 0, x2 |-> 0, y1 |-> 0, y2 |-> 0, out |-> Failure("pending")]
NoWit == [called |-> FALSE]

RegistryIdle == reg = None /\ tree = Undefined /\ initPending = 0 /\ lastOp = NoOp
RlnIdle ==
    /\ rlnPoseidon = "undefined"
    /\ buildsStarted = 0
    /\ buildsPending = 0
    /\ calls = [c \in Callers |-> IdleCall]
\* RLN._poseidon after one completed initialisation.
RlnReady ==
    /\ rlnPoseidon = "ready"
    /\ buildsStarted = 1
    /\ buildsPending = 0
    /\ calls = [c \in Callers |-> IdleCall]

(***************************************************************************)
(* SpecRetrieve: retrieveSecret applied to arbitrary field elements.       *)
(***************************************************************************)
InitRetrieve ==
    /\ RegistryIdle /\ RlnIdle
    /\ share = NoShare /\ wit = NoWit
    /\ \E x1, x2, y1, y2 \in FieldElements :
          retr = [NoRetr EXCEPT !.x1 = x1, !.x2 = x2, !.y1 = y1, !.y2 = y2]

CallRetrieveSecret ==
    /\ ~retr.called
    /\ retr' = [retr EXCEPT !.called = TRUE,
                             !.out = RetrieveSecret(retr.x1, retr.x2, retr.y1, retr.y2)]
    /\ UNCHANGED <<regVars, rlnVars, share, wit>>

NextRetrieve == CallRetrieveSecret

SpecRetrieve == InitRetrieve /\ [][NextRetrieve]_vars

(***************************************************************************)
(* SpecWitness: genWitness on sample arguments.                            *)
(***************************************************************************)
WitnessSecrets == {1, 5, 6}
WitnessEpochs == {Big(<<7>>), Str(<<55>>), Big(<<1, 0>>)}
WitnessIdentifiers == {42, 0}
MerkleProofs ==
    {[siblings |-> <<3, 0>>, pathIndices |-> <<1, 0>>],
     [siblings |-> <<0, 4>>, pathIndices |-> <<0, 1>>]}

NoOut ==
    [identity_secret |-> 0, path_elements |-> <<>>, identity_path_index |-> <<>>,
     x |-> Str(<<>>), epoch |-> Str(<<>>), rln_identifier |-> 0]

InitWitness ==
    /\ RegistryIdle /\ RlnIdle
    /\ share = NoShare /\ retr = NoRetr
    /\ \E s \in WitnessSecrets, mp \in MerkleProofs, e \in WitnessEpochs,
          sig \in Signals, id \in WitnessIdentifiers, sh \in ShouldHashArgs :
          wit = [called |-> FALSE, identitySecret |-> s, merkleProof |-> mp,
                 epoch |-> e, signal |-> sig, rlnIdentifier |-> id,
                 shouldHash |-> sh, out |-> NoOut]

CallGenWitness ==
    /\ ~wit.called
    /\ wit' = [wit EXCEPT !.called = TRUE,
                  !.out = GenWitness(wit.identitySecret, wit.merkleProof, wit.epoch,
                                     wit.signal, wit.rlnIdentifier, wit.shouldHash)]
    /\ UNCHANGED <<regVars, rlnVars, share, retr>>

NextWitness == CallGenWitness

SpecWitness == InitWitness /\ [][NextWitness]_vars

(***************************************************************************)
(* SpecRLN: callers of RLN.calculateOutput and RLN.genNullifier            *)
(* interleaved at their await points, over the shared RLN._poseidon.       *)
(***************************************************************************)
RlnSecrets == {1, 2}
RlnEpochs == {0, 3}
RlnIdentifiers == {1, 4}
RlnXs == {2, 5}
RlnSlopes == {0, 4}

\* RLN.poseidon (rln.ts 167-176): `if (!this._poseidon)` starts buildPoseidon()
\* without awaiting it, then `this._poseidon(input)` is invoked at once.
PoseidonStartsBuild(handle) == handle = "undefined"
PoseidonInvoke(handle, input) ==
    IF handle = "undefined" THEN Failure("TypeError") ELSE Ok(Poseidon(input))

InitRLN ==
    /\ RegistryIdle /\ RlnIdle
    /\ share = NoShare /\ retr = NoRetr /\ wit = NoWit

\* The builds started by one pass through RLN.poseidon.
StartBuild ==
    /\ buildsStarted' = IF PoseidonStartsBuild(rlnPoseidon)
                        THEN buildsStarted + 1 ELSE buildsStarted
    /\ buildsPending' = IF PoseidonStartsBuild(rlnPoseidon)
                        THEN buildsPending + 1 ELSE buildsPending

\* calculateOutput up to its first await (rln.ts 105-111).
CallCalculateOutput(c, identitySecret, epoch, rlnIdentifier, x) ==
    /\ calls[c].pc = "idle"
    /\ calls' = [calls EXCEPT ![c] =
                    [IdleCall EXCEPT !.pc = "awaitA1", !.fn = "calculateOutput",
                                     !.identitySecret = identitySecret, !.epoch = epoch,
                                     !.rlnIdentifier = rlnIdentifier, !.x = x,
                                     !.a1 = PoseidonInvoke(rlnPoseidon,
                                                           <<identitySecret, epoch>>)]]
    /\ StartBuild
    /\ UNCHANGED <<rlnPoseidon, regVars, share, retr, wit>>

\* calculateOutput resumed after `await this.poseidon(...)` (rln.ts 111-113):
\* a rejected promise rejects the call; otherwise y is computed and
\* genNullifier is entered up to its await (rln.ts 124-125).
ResumeA1(c) ==
    /\ calls[c].pc = "awaitA1"
    /\ IF calls[c].a1.status # "ok"
       THEN /\ calls' = [calls EXCEPT ![c].pc = "done", ![c].result = calls[c].a1.status]
            /\ UNCHANGED <<buildsStarted, buildsPending>>
       ELSE /\ calls' = [calls EXCEPT
                            ![c].pc = "awaitNullifier",
                            ![c].y = ShareY(calls[c].a1.val, calls[c].x,
                                            calls[c].identitySecret),
                            ![c].nullifier =
                                PoseidonInvoke(rlnPoseidon,
                                               <<calls[c].a1.val, calls[c].rlnIdentifier>>)]
            /\ StartBuild
    /\ UNCHANGED <<rlnPoseidon, regVars, share, retr, wit>>

\* genNullifier called directly, up to its await (rln.ts 124-125).
CallGenNullifier(c, a1, rlnIdentifier) ==
    /\ calls[c].pc = "idle"
    /\ calls' = [calls EXCEPT ![c] =
                    [IdleCall EXCEPT !.pc = "awaitNullifier", !.fn = "genNullifier",
                                     !.a1 = Ok(a1), !.rlnIdentifier = rlnIdentifier,
                                     !.nullifier = PoseidonInvoke(rlnPoseidon,
                                                                  <<a1, rlnIdentifier>>)]]
    /\ StartBuild
    /\ UNCHANGED <<rlnPoseidon, regVars, share, retr, wit>>

\* The await of genNullifier settles and the call returns (rln.ts 113-115, 125).
ResumeNullifier(c) ==
    /\ calls[c].pc = "awaitNullifier"
    /\ calls' = [calls EXCEPT ![c].pc = "done", ![c].result = calls[c].nullifier.status]
    /\ UNCHANGED <<rlnPoseidon, buildsStarted, buildsPending, regVars, share, retr, wit>>

\* A buildPoseidon() promise resolves: the callback stores the handle
\* (rln.ts 170-173); the value of the call it then makes is dropped.
BuildResolve ==
    /\ buildsPending > 0
    /\ buildsPending' = buildsPending - 1
    /\ rlnPoseidon' = "ready"
    /\ UNCHANGED <<buildsStarted, calls, regVars, share, retr, wit>>

NextRLN ==
    \/ \E c \in Callers, s \in RlnSecrets, e \in RlnEpochs,
          id \in RlnIdentifiers, x \in RlnXs : CallCalculateOutput(c, s, e, id, x)
    \/ \E c \in Callers, a1 \in RlnSlopes, id \in RlnIdentifiers :
          CallGenNullifier(c, a1, id)
    \/ \E c \in Callers : ResumeA1(c)
    \/ \E c \in Callers : ResumeNullifier(c)
    \/ BuildResolve

SpecRLN == InitRLN /\ [][NextRLN]_vars

(***************************************************************************)
(* SpecShare: one identity broadcasts two signals x1, x2 in one epoch for  *)
(* one application: caller c1 runs calculateOutput on x1 and caller c2 on  *)
(* x2, the two calls interleaving at their awaits; once both have returned *)
(* an observer feeds the two shares to retrieveSecret.  The hash primitive *)
(* is initialised before the first call.                                   *)
(***************************************************************************)
ShareIdentifiers == {0, 1, P - 1}

InitShare ==
    /\ RegistryIdle /\ RlnReady
    /\ retr = NoRetr /\ wit = NoWit
    /\ \E s, e, x1, x2 \in FieldElements : \E id \in ShareIdentifiers :
          share = [NoShare EXCEPT !.stage = "start", !.identitySecret = s, !.epoch = e,
                                  !.rlnIdentifier = id, !.x1 = x1, !.x2 = x2]

\* calculateOutput(identitySecret, epoch, rlnIdentifier, x1) is issued.
ShareCallFirst ==
    /\ share.stage = "start"
    /\ CallCalculateOutput("c1", share.identitySecret, share.epoch,
                           share.rlnIdentifier, share.x1)

\* calculateOutput(identitySecret, epoch, rlnIdentifier, x2) is issued.
ShareCallSecond ==
    /\ share.stage = "start"
    /\ CallCalculateOutput("c2", share.identitySecret, share.epoch,
                           share.rlnIdentifier, share.x2)

\* Both calls have returned [y, nullifier]; retrieveSecret(x1, x2, y1, y2).
ShareRetrieve ==
    /\ share.stage = "start"
    /\ calls["c1"].pc = "done" /\ calls["c1"].result = "ok"
    /\ calls["c2"].pc = "done" /\ calls["c2"].result = "ok"
    /\ share' = [share EXCEPT
                    !.stage = "done",
                    !.y1 = calls["c1"].y, !.nullifier1 = calls["c1"].nullifier.val,
                    !.y2 = calls["c2"].y, !.nullifier2 = calls["c2"].nullifier.val,
                    !.secret = RetrieveSecret(share.x1, share.x2,
                                              calls["c1"].y, calls["c2"].y)]
    /\ UNCHANGED <<regVars, rlnVars, retr, wit>>

NextShare ==
    \/ ShareCallFirst
    \/ ShareCallSecond
    \/ \E c \in Callers : ResumeA1(c)
    \/ \E c \in Callers : ResumeNullifier(c)
    \/ ShareRetrieve

SpecShare == InitShare /\ [][NextShare]_vars

(***************************************************************************)
(* The incremental Merkle tree the Registry owns: the leaf sequence of     *)
(* the occupied slots, in index order (indices from 0; leaves[i + 1] is    *)
(* slot i).                                                                *)
(***************************************************************************)
RECURSIVE Halve(_, _)
Halve(n, times) == IF times = 0 THEN n ELSE Halve(n \div 2, times - 1)

\* No unused index remains: Len(leaves) >= 2^depth.
TreeIsFull(t) == Halve(Len(t.leaves), t.depth) >= 1

NewTree(depth, zeroValue) ==
    [built |-> TRUE, depth |-> depth, zero |-> zeroValue, leaves |-> <<>>]

TreeInsert(t, leaf) ==
    IF TreeIsFull(t) THEN [tree |-> t, outcome |-> "CapacityExceeded"]
    ELSE [tree |-> [t EXCEPT !.leaves = Append(@, leaf)], outcome |-> "ok"]

TreeDelete(t, index) ==
    IF index < 0 \/ index >= Len(t.leaves) THEN [tree |-> t, outcome |-> "OutOfRange"]
    ELSE [tree |-> [t EXCEPT !.leaves[index + 1] = t.zero], outcome |-> "ok"]

\* The first slot strictly equal to `member`, or -1.
TreeIndexOf(t, member) ==
    IF \E i \in 1 .. Len(t.leaves) : t.leaves[i] = member
    THEN (CHOOSE i \in 1 .. Len(t.leaves) :
              /\ t.leaves[i] = member
              /\ \A j \in 1 .. (i - 1) : t.leaves[j] # member) - 1
    ELSE -1

\* The root is a function of the tree's parameters and its leaf sequence.
TreeRoot(t) == [depth |-> t.depth, zero |-> t.zero, leaves |-> t.leaves]

(***************************************************************************)
(* The Registry (registry/index.ts).                                       *)
(***************************************************************************)
MinTreeDepth == 16
MaxTreeDepth == 32

MaxLeaves == 3
MaxBatch == 3
MaxInits == 2

DefaultTreeDepth == 20
Depths == {MinTreeDepth - 1, MinTreeDepth, DefaultTreeDepth, MaxTreeDepth, MaxTreeDepth + 1}
ZeroValues == {MBig(0), MStr(0)}
MemberInputs == {MBig(1), MStr(2), MStr(-1)}
IndexInputs == -1 .. MaxLeaves
RECURSIVE SeqsUpTo(_, _)
SeqsUpTo(S, n) ==
    IF n = 0 THEN {<<>>}
    ELSE LET shorter == SeqsUpTo(S, n - 1)
         IN  shorter \cup {Append(q, e) : q \in shorter, e \in S}
Batches == SeqsUpTo(MemberInputs, MaxBatch)

\* BigInt(identityCommitment) (index.ts 82): a bigint is kept, a string of
\* digits is parsed, any other string throws a SyntaxError.
MemberIsNumeric(m) == m.t = "bigint" \/ m.v >= 0
MemberToBigInt(m) == MBig(m.v)

\* The constructor's guard (index.ts 18-20).
DepthAcceptedExclusive(treeDepth) == ~(treeDepth <= MinTreeDepth \/ treeDepth >= MaxTreeDepth)

DepthAccepted(treeDepth) == ~(treeDepth < MinTreeDepth \/ treeDepth > MaxTreeDepth)

OpRecord(op, outcome) ==
    [NoOp EXCEPT !.op = op, !.outcome = outcome, !.before = tree.leaves,
                 !.builtBefore = tree.built]

\* new Registry(treeDepth, zeroValue) (index.ts 17-23).
Construct(treeDepth, zeroValue) ==
    /\ ~reg.constructed
    /\ IF DepthAccepted(treeDepth)
       THEN /\ reg' = [constructed |-> TRUE, treeDepth |-> treeDepth,
                       zeroValue |-> zeroValue]
            /\ lastOp' = [OpRecord("construct", "ok") EXCEPT !.value = treeDepth]
       ELSE /\ reg' = reg
            /\ lastOp' = [OpRecord("construct", "Error") EXCEPT !.value = treeDepth]
    /\ UNCHANGED <<tree, initPending, rlnVars, share, retr, wit>>

\* init() up to `await buildPoseidon()` (index.ts 57-58).
InitStart ==
    /\ reg.constructed
    /\ initPending < MaxInits
    /\ initPending' = initPending + 1
    /\ lastOp' = OpRecord("init", "pending")
    /\ UNCHANGED <<reg, tree, rlnVars, share, retr, wit>>

\* init() resumed: the tree is built and stored (index.ts 60-65).
InitComplete ==
    /\ initPending > 0
    /\ initPending' = initPending - 1
    /\ tree' = NewTree(reg.treeDepth, reg.zeroValue)
    /\ lastOp' = OpRecord("initDone", "ok")
    /\ UNCHANGED <<reg, rlnVars, share, retr, wit>>

\* The accessors (index.ts 29-55): a property of this._merkleTree, which
\* is undefined until init() has stored the tree.
MembersOf(t) == t.leaves

Accessor(name) ==
    /\ reg.constructed
    /\ name \in {"root", "depth", "zeroValue", "members"}
    /\ lastOp' =
          IF ~tree.built THEN OpRecord(name, "TypeError")
          ELSE [OpRecord(name, "ok") EXCEPT
                  !.value = IF name = "depth" THEN tree.depth ELSE -1,
                  !.member = IF name = "zeroValue" THEN tree.zero ELSE MBig(0),
                  !.out = IF name = "members" THEN MembersOf(tree)
                          ELSE IF name = "root" THEN <<TreeRoot(tree)>> ELSE <<>>]
    /\ UNCHANGED <<reg, tree, initPending, rlnVars, share, retr, wit>>

\* indexOf(member) (index.ts 73-75).
IndexOf(member) ==
    /\ reg.constructed
    /\ lastOp' =
          IF ~tree.built THEN [OpRecord("indexOf", "TypeError") EXCEPT !.member = member]
          ELSE [OpRecord("indexOf", "ok") EXCEPT
                  !.member = member,
                  !.value = TreeIndexOf(tree, member),
                  !.prevInsert = IF /\ lastOp.op = "addMember"
                                    /\ lastOp.outcome = "ok"
                                    /\ lastOp.member = member
                                 THEN lastOp.index ELSE -1]
    /\ UNCHANGED <<reg, tree, initPending, rlnVars, share, retr, wit>>

\* The body of addMember on tree state t (index.ts 81-83).
AddMemberStep(t, identityCommitment) ==
    IF ~t.built THEN [tree |-> t, outcome |-> "TypeError"]
    ELSE IF ~MemberIsNumeric(identityCommitment)
         THEN [tree |-> t, outcome |-> "SyntaxError"]
         ELSE TreeInsert(t, MemberToBigInt(identityCommitment))

\* addMember(identityCommitment) (index.ts 81-83).
AddMember(identityCommitment) ==
    /\ reg.constructed
    /\ Len(tree.leaves) < MaxLeaves
    /\ LET r == AddMemberStep(tree, identityCommitment)
       IN  /\ tree' = r.tree
           /\ lastOp' = [OpRecord("addMember", r.outcome) EXCEPT
                           !.member = identityCommitment,
                           !.index = IF r.outcome = "ok" THEN Len(tree.leaves) ELSE -1]
    /\ UNCHANGED <<reg, initPending, rlnVars, share, retr, wit>>

\* The loop of addMembers from position i on (index.ts 90-92): the first
\* failing addMember ends the loop, its error leaving the method.
RECURSIVE AddMembersLoopSkipping(_, _, _)
AddMembersLoopSkipping(t, identityCommitments, i) ==
    IF i > Len(identityCommitments) THEN [tree |-> t, failedAt |-> 0, outcome |-> "ok"]
    ELSE LET r == AddMemberStep(t, identityCommitments[i])
         IN  IF r.outcome # "ok"
             THEN LET rest == AddMembersLoopSkipping(t, identityCommitments, i + 1)
                  IN  [tree |-> rest.tree, failedAt |-> i, outcome |-> r.outcome]
             ELSE AddMembersLoopSkipping(r.tree, identityCommitments, i + 1)

RECURSIVE AddMembersLoop(_, _, _)
AddMembersLoop(t, identityCommitments, i) ==
    IF i > Len(identityCommitments) THEN [tree |-> t, failedAt |-> 0, outcome |-> "ok"]
    ELSE LET r == AddMemberStep(t, identityCommitments[i])
         IN  IF r.outcome # "ok"
             THEN [tree |-> r.tree, failedAt |-> i, outcome |-> r.outcome]
             ELSE AddMembersLoop(r.tree, identityCommitments, i + 1)

\* addMembers(identityCommitments) (index.ts 89-93).
AddMembers(identityCommitments) ==
    /\ reg.constructed
    /\ Len(tree.leaves) + Len(identityCommitments) <= MaxLeaves
    /\ LET r == AddMembersLoop(tree, identityCommitments, 1)
       IN  /\ tree' = r.tree
           /\ lastOp' = [OpRecord("addMembers", r.outcome) EXCEPT
                           !.list = identityCommitments, !.failedAt = r.failedAt]
    /\ UNCHANGED <<reg, initPending, rlnVars, share, retr, wit>>

\* removeMember(index) (index.ts 99-101).
RemoveMemberOffByOne(index) ==
    /\ reg.constructed
    /\ LET r == IF ~tree.built THEN [tree |-> tree, outcome |-> "TypeError"]
                ELSE TreeDelete(tree, index + 1)
       IN  /\ tree' = r.tree
           /\ lastOp' = [OpRecord("removeMember", r.outcome) EXCEPT !.index = index]
    /\ UNCHANGED <<reg, initPending, rlnVars, share, retr, wit>>

RemoveMember(index) ==
    /\ reg.constructed
    /\ LET r == IF ~tree.built THEN [tree |-> tree, outcome |-> "TypeError"]
                ELSE TreeDelete(tree, index)
       IN  /\ tree' = r.tree
           /\ lastOp' = [OpRecord("removeMember", r.outcome) EXCEPT !.index = index]
    /\ UNCHANGED <<reg, initPending, rlnVars, share, retr, wit>>

InitRegistry ==
    /\ RegistryIdle /\ RlnIdle
    /\ share = NoShare /\ retr = NoRetr /\ wit = NoWit

NextRegistry ==
    \/ \E d \in Depths, z \in ZeroValues : Construct(d, z)
    \/ InitStart
    \/ InitComplete
    \/ \E name \in {"root", "depth", "zeroValue", "members"} : Accessor(name)
    \/ \E m \in MemberInputs \cup ZeroValues : IndexOf(m)
    \/ \E m \in MemberInputs : AddMember(m)
    \/ \E list \in Batches : AddMembers(list)
    \/ \E i \in IndexInputs : RemoveMember(i)

SpecRegistry == InitRegistry /\ [][NextRegistry]_vars

(***************************************************************************)
(* The claims.                                                             *)
(***************************************************************************)

\* C1: the lazily initialised Poseidon handle: buildPoseidon is started at
\* most once, no call invokes the handle while it is unset, and no call
\* issued before the initialisation completes settles before it completes.
C1_LazyInitContract ==
    /\ buildsStarted <= 1
    /\ \A c \in Callers :
          /\ calls[c].a1.status # "TypeError"
          /\ calls[c].nullifier.status # "TypeError"
          /\ (calls[c].pc = "done" => rlnPoseidon = "ready")

\* C2: two shares of one (identitySecret, epoch, identifier) with distinct
\* x values give back exactly identitySecret through retrieveSecret.
C2_TwoSharesRecoverSecret ==
    (share.stage = "done" /\ share.x1 # share.x2)
        => share.secret = Ok(share.identitySecret)

C2_Witness ==
    /\ share.stage = "done"
    /\ share.x1 # share.x2
    /\ share.x1 # 0
    /\ share.y1 # share.y2
    /\ share.identitySecret # 0
    /\ share.secret = Ok(share.identitySecret)

\* C3: every Registry operation invoked before init() has stored the tree
\* fails; none of them succeeds or returns a value.
RegistryOperations ==
    {"root", "depth", "zeroValue", "members", "indexOf", "addMember", "addMembers",
     "removeMember"}

C3_FailsBeforeInit ==
    (lastOp.op \in RegistryOperations /\ ~lastOp.builtBefore) => lastOp.outcome # "ok"

\* C4: removeMember(index) on an occupied index leaves members() with the
\* zero value at that index, the same length, and every other slot as before.
C4_RemoveKeepsOtherSlots ==
    (/\ lastOp.op = "removeMember"
     /\ lastOp.builtBefore
     /\ lastOp.index >= 0
     /\ lastOp.index < Len(lastOp.before))
        => /\ lastOp.outcome = "ok"
           /\ Len(MembersOf(tree)) = Len(lastOp.before)
           /\ MembersOf(tree)[lastOp.index + 1] = tree.zero
           /\ \A j \in 1 .. Len(lastOp.before) :
                 j # lastOp.index + 1 => MembersOf(tree)[j] = lastOp.before[j]

C4_Witness ==
    /\ lastOp.op = "removeMember"
    /\ lastOp.outcome = "ok"
    /\ Len(lastOp.before) = 3
    /\ lastOp.index = 1
    /\ lastOp.before[1] = tree.zero
    /\ lastOp.before[2] # tree.zero
    /\ lastOp.before[3] # tree.zero
    /\ MembersOf(tree)[2] = tree.zero
    /\ MembersOf(tree)[3] = lastOp.before[3]

\* C5: insertMember(m) immediately followed by indexOf(m) returns the index
\* at which that insertion placed m, in every reachable registry state.
C5_IndexOfAfterInsert ==
    (lastOp.op = "indexOf" /\ lastOp.prevInsert >= 0)
        => (lastOp.outcome = "ok" /\ lastOp.value = lastOp.prevInsert)

\* C6: retrieveSecret(x, x, y1, y2) fails with DivisionByZero and returns
\* no value, for every x, y1 and y2.
C6_EqualXDivisionByZero ==
    (retr.called /\ retr.x1 = retr.x2) => retr.out = Failure("DivisionByZero")

C6_Witness ==
    /\ retr.called
    /\ retr.x1 = retr.x2
    /\ retr.x1 # 0
    /\ retr.y1 # retr.y2
    /\ retr.out.status = "DivisionByZero"

\* C7: constructing a Registry succeeds exactly when the depth is in
\* [16, 32]; otherwise it fails and no registry state is created.
C7_ConstructDepthRange ==
    lastOp.op = "construct"
        => /\ lastOp.outcome = "ok" <=> (lastOp.value >= 16 /\ lastOp.value <= 32)
           /\ lastOp.outcome = "ok" =>
                 (reg.constructed /\ reg.treeDepth = lastOp.value)
           /\ lastOp.outcome # "ok" =>
                 (reg = None /\ tree = Undefined /\ initPending = 0)

C7_Witness ==
    /\ lastOp.op = "construct"
    /\ lastOp.value = 33
    /\ lastOp.outcome = "Error"
    /\ reg = None
    /\ tree = Undefined

\* C8: addMembers inserts in the given order and is not atomic: when the
\* k-th insertion fails the first k-1 members stay inserted at consecutive
\* indices in order, no later member is inserted, and the error is surfaced.
C8_AddMembersPrefixCommitted ==
    lastOp.op = "addMembers"
        => LET k == lastOp.failedAt
               n == IF k = 0 THEN Len(lastOp.list) ELSE k - 1
           IN  /\ k <= Len(lastOp.list)
               /\ lastOp.outcome = "ok" <=> k = 0
               /\ MembersOf(tree) =
                     lastOp.before \o [i \in 1 .. n |-> MemberToBigInt(lastOp.list[i])]

C8_Witness ==
    /\ lastOp.op = "addMembers"
    /\ lastOp.builtBefore
    /\ Len(lastOp.list) = 3
    /\ lastOp.failedAt = 2
    /\ lastOp.outcome = "SyntaxError"
    /\ lastOp.list[1] = MStr(2)
    /\ MemberIsNumeric(lastOp.list[3])
    /\ MembersOf(tree) = Append(lastOp.before, MBig(2))

\* C9: calculateOutput is deterministic: every call returns the pair
\* (normalize(a1 * x + identitySecret), Poseidon(a1, identifier)) with
\* a1 = Poseidon(identitySecret, epoch), whatever x is.
C9_OutputIsFunctionOfInputs ==
    \A c \in Callers :
        (calls[c].fn = "calculateOutput" /\ calls[c].pc = "done")
            => LET a1 == Poseidon(<<calls[c].identitySecret, calls[c].epoch>>)
               IN  /\ calls[c].result = "ok"
                   /\ calls[c].y = (a1 * calls[c].x + calls[c].identitySecret) % P
                   /\ calls[c].nullifier = Ok(Poseidon(<<a1, calls[c].rlnIdentifier>>))

\* C10: genWitness returns x = genSignalHash(signal) when shouldHash is true
\* (the default) and the signal verbatim when it is false; the identity
\* secret, sibling path, path indices, epoch and identifier pass unchanged.
C10_WitnessFields ==
    wit.called
        => /\ wit.out.x = IF wit.shouldHash \in {"omitted", "true"}
                          THEN GenSignalHash(wit.signal) ELSE Str(wit.signal)
           /\ wit.out.identity_secret = wit.identitySecret
           /\ wit.out.path_elements = wit.merkleProof.siblings
           /\ wit.out.identity_path_index = wit.merkleProof.pathIndices
           /\ wit.out.epoch = wit.epoch
           /\ wit.out.rln_identifier = wit.rlnIdentifier

C10_Witness ==
    /\ wit.called
    /\ wit.shouldHash = "omitted"
    /\ wit.signal = SignalHello
    /\ wit.epoch = Big(<<7>>)
    /\ wit.rlnIdentifier = 42
    /\ wit.out.x =
          Big(<<28, 138, 255, 149, 6, 133, 194, 237, 75, 195, 23, 79, 52, 114, 40, 123,
                86, 217, 81, 123, 156, 148, 129, 39, 49, 154, 9, 167, 163, 109, 234>>)
    /\ wit.out.epoch = Big(<<7>>)

====
